---- MODULE Spec2Model ----
(***************************************************************************)
(* Stream access control of zerver/lib/streams.py: the single-stream       *)
(* predicate access_stream_common, its two lookup front ends               *)
(* access_stream_by_id / access_stream_by_name, and the bulk predicate     *)
(* filter_stream_authorization, run against a small database of streams,   *)
(* recipients and subscriptions.                                           *)
(***************************************************************************)
EXTENDS Integers, Sequences, FiniteSets, TLC

VARIABLES streams, recipients, subscriptions, last

vars == <<streams, recipients, subscriptions, last>>
db == <<streams, recipients, subscriptions>>

(* ------------------------------ bounds -------------------------------- *)
\* stream ids are 1..NumStreams
NumStreams == 2
\* longest list handed to filter_stream_authorization
MaxLen == 2

(* ----------------------------- the database --------------------------- *)
None == [absent |-> TRUE]

Realms == {1, 2}
\* one user per realm
Users == {[id |-> 1, realm_id |-> 1], [id |-> 2, realm_id |-> 2]}
StreamIds == 1..NumStreams
\* ids that a request may carry: every stream id and one id of no stream
QueriedIds == 1..(NumStreams + 1)
StreamNames == {"denmark", "verona"}

\* streams alternate between the two realms
StreamRealm(i) == IF i % 2 = 1 THEN 1 ELSE 2

\* Recipient rows: one PERSONAL recipient per user (type_id = user id) and
\* one STREAM recipient per stream (type_id = stream id); recipient ids are
\* their own sequence, so recipient.id # recipient.type_id for streams.
PersonalRecipient(u) == [id |-> u.id, type |-> "PERSONAL", type_id |-> u.id]
StreamRecipient(i) == [id |-> Cardinality(Users) + i, type |-> "STREAM", type_id |-> i]

\* names are unique within a realm
NamesUniqueInRealm(S) ==
    \A s \in S, t \in S : (s.realm_id = t.realm_id /\ s.name = t.name) => s = t

SubStates == {"none", "active", "inactive"}

\* every user is subscribed to their own PERSONAL recipient
PersonalSubs ==
    {[user_profile_id |-> u.id, recipient_id |-> PersonalRecipient(u).id, active |-> TRUE] : u \in Users}

\* at most one Subscription row per (user, recipient)
StreamSubs(f) ==
    {[user_profile_id |-> p[1], recipient_id |-> StreamRecipient(p[2]).id, active |-> (f[p] = "active")] :
        p \in {q \in DOMAIN f : f[q] # "none"}}

Init ==
    /\ \E inv \in [StreamIds -> BOOLEAN], nm \in [StreamIds -> StreamNames] :
          /\ streams = {[id |-> i, realm_id |-> StreamRealm(i), invite_only |-> inv[i], name |-> nm[i]] : i \in StreamIds}
          /\ NamesUniqueInRealm(streams)
    /\ recipients = {PersonalRecipient(u) : u \in Users} \cup {StreamRecipient(i) : i \in StreamIds}
    /\ \E f \in [{u.id : u \in Users} \X StreamIds -> SubStates] :
          subscriptions = PersonalSubs \cup StreamSubs(f)
    /\ last = [op |-> "none"]

(* --------------------------- collaborators ---------------------------- *)
\* Stream.is_public()
is_public(stream) == ~stream.invite_only

\* get_recipient(type, type_id): the recipient of that type for that object
get_recipient(type, type_id) ==
    CHOOSE r \in recipients : r.type = type /\ r.type_id = type_id

\* bulk_get_recipients(type, type_ids): mapping type_id -> Recipient
bulk_get_recipients(type, type_ids) ==
    [i \in {j \in type_ids : \E r \in recipients : r.type = type /\ r.type_id = j} |->
        get_recipient(type, i)]

\* get_stream(name, realm): the stream of that name in that realm, or None
get_stream(stream_name, realm_id) ==
    IF \E s \in streams : s.name = stream_name /\ s.realm_id = realm_id
    THEN CHOOSE s \in streams : s.name = stream_name /\ s.realm_id = realm_id
    ELSE None

\* Stream.objects.get(id=stream_id), None standing for Stream.DoesNotExist
StreamGetById(stream_id) ==
    IF \E s \in streams : s.id = stream_id
    THEN CHOOSE s \in streams : s.id = stream_id
    ELSE None

\* Subscription.objects.get(user_profile=, recipient=, active=True),
\* None standing for Subscription.DoesNotExist
SubscriptionGetAnyState(user_profile, recipient) ==
    LET rows == {x \in subscriptions : x.user_profile_id = user_profile.id /\ x.recipient_id = recipient.id}
    IN  IF rows # {} THEN CHOOSE x \in rows : TRUE ELSE None

SubscriptionGet(user_profile, recipient) ==
    LET rows == {x \in subscriptions : /\ x.user_profile_id = user_profile.id
                                       /\ x.recipient_id = recipient.id
                                       /\ x.active}
    IN  IF rows # {} THEN CHOOSE x \in rows : TRUE ELSE None

\* Subscription.objects.filter(user_profile=, recipient__in=, active=True)
SubscriptionFilterAnyRecipient(user_profile, recips) ==
    {x \in subscriptions : x.user_profile_id = user_profile.id /\ x.active}

SubscriptionFilter(user_profile, recips) ==
    {x \in subscriptions : /\ x.user_profile_id = user_profile.id
                           /\ x.recipient_id \in {r.id : r \in recips}
                           /\ x.active}

\* sub.recipient: the foreign key of a Subscription row, fetched on access
SubRecipient(sub) == CHOOSE r \in recipients : r.id = sub.recipient_id

(* ------------------------------ results ------------------------------- *)
JsonableError(error) == [raised |-> TRUE, msg |-> error]
Return(value) == [raised |-> FALSE, value |-> value]

\* _("Invalid stream id")
InvalidStreamId == <<"Invalid stream id">>
\* _("Invalid stream name '%s'" % (stream_name,))
InvalidStreamName(stream_name) == <<"Invalid stream name '", stream_name, "'">>

(* --------------------------- the operations --------------------------- *)
\* access_stream_common without the realm comparison
AccessStreamCommonNoRealmCheck(user_profile, stream, error) ==
    LET recipient == get_recipient("STREAM", stream.id)
        sub == SubscriptionGet(user_profile, recipient)
    IN  IF is_public(stream) THEN Return(<<recipient, sub>>)
        ELSE IF sub # None THEN Return(<<recipient, sub>>)
        ELSE JsonableError(error)

\* access_stream_common returning for every stream of the user's realm
AccessStreamCommonNoPrivateCheck(user_profile, stream, error) ==
    IF stream.realm_id # user_profile.realm_id THEN JsonableError(error)
    ELSE LET recipient == get_recipient("STREAM", stream.id)
             sub == SubscriptionGet(user_profile, recipient)
         IN  Return(<<recipient, sub>>)

\* access_stream_common(user_profile, stream, error)
AccessStreamCommon(user_profile, stream, error) ==
    IF stream.realm_id # user_profile.realm_id THEN JsonableError(error)
    ELSE LET recipient == get_recipient("STREAM", stream.id)
             sub == SubscriptionGet(user_profile, recipient)
         IN  IF is_public(stream) THEN Return(<<recipient, sub>>)
             ELSE IF sub # None THEN Return(<<recipient, sub>>)
             ELSE JsonableError(error)

\* access_stream_by_id with a message of its own for a missing stream
AccessStreamByIdTellsMissing(user_profile, stream_id) ==
    LET error == InvalidStreamId
        stream == StreamGetById(stream_id)
    IN  IF stream = None THEN JsonableError(<<"Stream does not exist">>)
        ELSE LET r == AccessStreamCommon(user_profile, stream, error)
             IN  IF r.raised THEN r
                 ELSE Return(<<stream, r.value[1], r.value[2]>>)

\* access_stream_by_id(user_profile, stream_id)
AccessStreamById(user_profile, stream_id) ==
    LET error == InvalidStreamId
        stream == StreamGetById(stream_id)
    IN  IF stream = None THEN JsonableError(error)
        ELSE LET r == AccessStreamCommon(user_profile, stream, error)
             IN  IF r.raised THEN r
                 ELSE Return(<<stream, r.value[1], r.value[2]>>)

\* access_stream_by_name delegating with the id message
AccessStreamByNameIdMessage(user_profile, stream_name) ==
    LET error == InvalidStreamName(stream_name)
        stream == get_stream(stream_name, user_profile.realm_id)
    IN  IF stream = None THEN JsonableError(error)
        ELSE LET r == AccessStreamCommon(user_profile, stream, InvalidStreamId)
             IN  IF r.raised THEN r
                 ELSE Return(<<stream, r.value[1], r.value[2]>>)

\* access_stream_by_name(user_profile, stream_name)
AccessStreamByName(user_profile, stream_name) ==
    LET error == InvalidStreamName(stream_name)
        stream == get_stream(stream_name, user_profile.realm_id)
    IN  IF stream = None THEN JsonableError(error)
        ELSE LET r == AccessStreamCommon(user_profile, stream, error)
             IN  IF r.raised THEN r
                 ELSE Return(<<stream, r.value[1], r.value[2]>>)

\* filter_stream_authorization, the two bulk fetches: the rows of subs
FilterSubs(user_profile, strs) ==
    LET recipients_map == bulk_get_recipients("STREAM", {strs[k].id : k \in DOMAIN strs})
    IN  SubscriptionFilter(user_profile, {recipients_map[i] : i \in DOMAIN recipients_map})

\* filter_stream_authorization, the loop over subs: streams_subscribed
StreamsSubscribed(subs) == {SubRecipient(sub).type_id : sub \in subs}

\* Database round trips of filter_stream_authorization: bulk_get_recipients,
\* the evaluation of the subs queryset, and one fetch of sub.recipient for
\* each row of subs (the queryset selects Subscription rows only, the
\* related Recipient is loaded when the loop reads it).
FilterQueries(subs) == 1 + 1 + Cardinality(subs)

\* the loop over streams without the subscribed test
UnauthorizedStreamsAllPrivate(strs, streams_subscribed) ==
    SelectSeq(strs, LAMBDA stream : stream.invite_only)

\* filter_stream_authorization, the loop over streams: unauthorized_streams
UnauthorizedStreams(strs, streams_subscribed) ==
    SelectSeq(strs, LAMBDA stream : ~(stream.id \in streams_subscribed) /\ stream.invite_only)

\* the final comprehension built through a set of ids: one entry per id
AuthorizedStreamsDeduplicated(strs, unauthorized_streams) ==
    LET unauthorized_ids == {unauthorized_streams[k].id : k \in DOMAIN unauthorized_streams}
        keep(k) == /\ strs[k].id \notin unauthorized_ids
                   /\ \A j \in 1..(k - 1) : strs[j].id # strs[k].id
        F[k \in 0..Len(strs)] ==
            IF k = 0 THEN <<>>
            ELSE IF keep(k) THEN Append(F[k - 1], strs[k]) ELSE F[k - 1]
    IN  F[Len(strs)]

\* filter_stream_authorization, the final comprehension: authorized_streams
AuthorizedStreams(strs, unauthorized_streams) ==
    SelectSeq(strs, LAMBDA stream :
        stream.id \notin {unauthorized_streams[k].id : k \in DOMAIN unauthorized_streams})

\* filter_stream_authorization(user_profile, streams)
FilterStreamAuthorization(user_profile, strs) ==
    LET subs == FilterSubs(user_profile, strs)
        streams_subscribed == StreamsSubscribed(subs)
        unauthorized_streams == UnauthorizedStreams(strs, streams_subscribed)
        authorized_streams == AuthorizedStreams(strs, unauthorized_streams)
    IN  [authorized |-> authorized_streams, unauthorized |-> unauthorized_streams,
         queries |-> FilterQueries(subs)]

(* ------------------------------ requests ------------------------------ *)
\* Calls are synchronous and request-scoped: one starts when no other is in
\* progress, and its outcome goes back to the caller before the next one.
NoCall == [op |-> "none"]
Idle == last = NoCall

StreamLists == UNION {[1..n -> streams] : n \in 0..MaxLen}

\* a call of access_stream_by_id that deactivates the subscription it read
CallAccessStreamByIdWrites ==
    \E user_profile \in Users, stream_id \in QueriedIds :
        LET r == AccessStreamById(user_profile, stream_id)
        IN  /\ Idle
        /\ last' = [op |-> "by_id", user_profile |-> user_profile,
                        stream_id |-> stream_id, result |-> r]
            /\ subscriptions' =
                  (IF r.raised \/ r.value[3] = None THEN subscriptions
                   ELSE (subscriptions \ {r.value[3]}) \cup {[r.value[3] EXCEPT !.active = FALSE]})
            /\ UNCHANGED <<streams, recipients>>

CallAccessStreamById ==
    \E user_profile \in Users, stream_id \in QueriedIds :
        /\ Idle
        /\ last' = [op |-> "by_id", user_profile |-> user_profile, stream_id |-> stream_id,
                    result |-> AccessStreamById(user_profile, stream_id)]
        /\ UNCHANGED db

CallAccessStreamCommon ==
    \E user_profile \in Users, stream \in streams :
      \E error \in {InvalidStreamId, InvalidStreamName(stream.name)} :
        /\ Idle
        /\ last' = [op |-> "common", user_profile |-> user_profile, stream |-> stream,
                    error |-> error,
                    result |-> AccessStreamCommon(user_profile, stream, error)]
        /\ UNCHANGED db

CallAccessStreamByName ==
    \E user_profile \in Users, stream_name \in StreamNames :
        /\ Idle
        /\ last' = [op |-> "by_name", user_profile |-> user_profile,
                    stream_name |-> stream_name,
                    result |-> AccessStreamByName(user_profile, stream_name)]
        /\ UNCHANGED db

CallFilterStreamAuthorization ==
    \E user_profile \in Users, strs \in StreamLists :
        /\ Idle
        /\ last' = [op |-> "filter", user_profile |-> user_profile, streams |-> strs,
                    result |-> FilterStreamAuthorization(user_profile, strs)]
        /\ UNCHANGED db

\* the outcome of the call is handed to the caller
Respond ==
    /\ ~Idle
    /\ last' = NoCall
    /\ UNCHANGED db

Next ==
    \/ CallAccessStreamCommon
    \/ CallAccessStreamById
    \/ CallAccessStreamByName
    \/ CallFilterStreamAuthorization
    \/ Respond

Spec == Init /\ [][Next]_vars

(* ------------------------ vocabulary of the claims -------------------- *)
SameRealm(user_profile, stream) == stream.realm_id = user_profile.realm_id

\* the Subscription row, if any, of the user for the stream's recipient
ActiveRow(user_profile, stream) ==
    [user_profile_id |-> user_profile.id, recipient_id |-> StreamRecipient(stream.id).id, active |-> TRUE]
InactiveRow(user_profile, stream) ==
    [user_profile_id |-> user_profile.id, recipient_id |-> StreamRecipient(stream.id).id, active |-> FALSE]
HasActiveSub(user_profile, stream) == ActiveRow(user_profile, stream) \in subscriptions
HasInactiveSub(user_profile, stream) == InactiveRow(user_profile, stream) \in subscriptions

\* what access_stream_common is to return on success
ExpectedPair(user_profile, stream) ==
    <<StreamRecipient(stream.id),
      IF HasActiveSub(user_profile, stream) THEN ActiveRow(user_profile, stream) ELSE None>>

Range(seq) == {seq[k] : k \in DOMAIN seq}
Ids(S) == {s.id : s \in S}

(* -------------------------------- C1 ---------------------------------- *)
\* C1: when the realms of user and stream differ, access_stream_common
\* raises JsonableError with the supplied message, whatever invite_only is
\* and whether or not the user has an active subscription to the stream.
C1_CrossRealmDenied ==
    (last.op = "common" /\ ~SameRealm(last.user_profile, last.stream))
        => last.result = JsonableError(last.error)

\* a public stream of the other realm the user is actively subscribed to
C1_Witness ==
    /\ last.op = "common"
    /\ ~SameRealm(last.user_profile, last.stream)
    /\ ~last.stream.invite_only
    /\ HasActiveSub(last.user_profile, last.stream)
    /\ last.result.raised

(* -------------------------------- C2 ---------------------------------- *)
\* C2: for a public stream of the user's own realm access_stream_common
\* succeeds in every subscription state and returns (the stream's
\* recipient, the user's active subscription to it or None); an inactive
\* subscription is never returned.
C2_PublicOwnRealmSucceeds ==
    (last.op = "common" /\ SameRealm(last.user_profile, last.stream) /\ ~last.stream.invite_only)
        => /\ ~last.result.raised
           /\ last.result.value = ExpectedPair(last.user_profile, last.stream)
           /\ last.result.value[2] # None => last.result.value[2].active

\* a public stream of the own realm with an inactive subscription: None
C2_Witness ==
    /\ last.op = "common"
    /\ SameRealm(last.user_profile, last.stream)
    /\ ~last.stream.invite_only
    /\ HasInactiveSub(last.user_profile, last.stream)
    /\ ~last.result.raised
    /\ last.result.value[2] = None

(* -------------------------------- C3 ---------------------------------- *)
\* C3 as stated: for every invite_only stream access_stream_common succeeds
\* iff the user has an active subscription to its recipient, and on success
\* returns that subscription.
C3_PrivateIffSubscribed ==
    (last.op = "common" /\ last.stream.invite_only)
        => /\ ~last.result.raised <=> HasActiveSub(last.user_profile, last.stream)
           /\ ~last.result.raised =>
                 last.result.value[2] = ActiveRow(last.user_profile, last.stream)

\* C3 amended: for every invite_only stream of the user's own realm
\* access_stream_common succeeds iff the user has an active subscription to
\* its recipient, and on success returns that subscription.
C3_PrivateOwnRealmIffSubscribed ==
    (last.op = "common" /\ last.stream.invite_only /\ SameRealm(last.user_profile, last.stream))
        => /\ ~last.result.raised <=> HasActiveSub(last.user_profile, last.stream)
           /\ ~last.result.raised =>
                 last.result.value = <<StreamRecipient(last.stream.id),
                                       ActiveRow(last.user_profile, last.stream)>>

\* a private stream of the own realm with an active subscription
C3_Witness ==
    /\ last.op = "common"
    /\ last.stream.invite_only
    /\ SameRealm(last.user_profile, last.stream)
    /\ HasActiveSub(last.user_profile, last.stream)
    /\ ~last.result.raised

(* -------------------------------- C4 ---------------------------------- *)
\* C4: for one user, a failing access_stream_by_id carries the same message
\* as every other failing access_stream_by_id, whether the id is of no
\* stream, of a stream of another realm, or of a private stream the user
\* has no active subscription to.
C4_ByIdHidesExistence ==
    (last.op = "by_id" /\ last.result.raised)
        => \A other \in QueriedIds :
              LET r == AccessStreamById(last.user_profile, other)
              IN  r.raised => r = last.result

\* the call failed on an existing private stream of the own realm, while an
\* id of no stream and an id of another realm's stream fail as well
C4_Witness ==
    /\ last.op = "by_id"
    /\ last.result.raised
    /\ \E s \in streams : /\ s.id = last.stream_id
                          /\ SameRealm(last.user_profile, s)
                          /\ s.invite_only
    /\ \E s \in streams : ~SameRealm(last.user_profile, s) /\ ~s.invite_only
    /\ \E i \in QueriedIds : i \notin Ids(streams)

(* -------------------------------- C5 ---------------------------------- *)
\* C5: access_stream_by_name looks the name up in the user's realm; it
\* fails with the message bearing the queried name both when no such stream
\* is found and when the found stream is not accessible, and on success it
\* returns the found stream with access_stream_common's (recipient, sub).
C5_ByName ==
    last.op = "by_name" =>
        LET found == {s \in streams : s.name = last.stream_name /\ SameRealm(last.user_profile, s)}
        IN  /\ last.result.raised => last.result.msg = InvalidStreamName(last.stream_name)
            /\ found = {} => last.result.raised
            /\ \A s \in found :
                  LET r == AccessStreamCommon(last.user_profile, s, InvalidStreamName(last.stream_name))
                  IN  /\ last.result.raised <=> r.raised
                      /\ ~r.raised => last.result.value = <<s, r.value[1], r.value[2]>>

\* the name is found in the user's realm, and the stream is not accessible
C5_Witness ==
    /\ last.op = "by_name"
    /\ last.result.raised
    /\ \E s \in streams : s.name = last.stream_name /\ SameRealm(last.user_profile, s)
    /\ \E s \in streams : s.name = last.stream_name /\ ~SameRealm(last.user_profile, s)

(* -------------------------------- C6 ---------------------------------- *)
\* C6: filter_stream_authorization puts a stream in the unauthorized list
\* iff the stream is invite_only and the user has no active subscription to
\* its recipient; a public stream is never in the unauthorized list.
C6_UnauthorizedIffPrivateUnsubscribed ==
    last.op = "filter" =>
        \A s \in Range(last.streams) :
            s \in Range(last.result.unauthorized)
                <=> (s.invite_only /\ ~HasActiveSub(last.user_profile, s))

\* the input holds a private stream the user is subscribed to and a private
\* stream the user is not subscribed to
C6_Witness ==
    /\ last.op = "filter"
    /\ \E s \in Range(last.streams) : s.invite_only /\ HasActiveSub(last.user_profile, s)
    /\ \E s \in Range(last.streams) : s.invite_only /\ ~HasActiveSub(last.user_profile, s)
    /\ last.result.unauthorized # <<>>
    /\ last.result.authorized # <<>>

(* -------------------------------- C7 ---------------------------------- *)
\* C7: filter_stream_authorization classifies every input stream: the ids
\* of the two lists are disjoint and together are the ids of the input, and
\* the authorized list is the input list without the streams whose id is in
\* the unauthorized list, in input order, repeated entries kept.
C7_Partition ==
    last.op = "filter" =>
        LET unauthorized_ids == Ids(Range(last.result.unauthorized))
        IN  /\ Ids(Range(last.result.authorized)) \cap unauthorized_ids = {}
            /\ Range(last.result.authorized) \cup Range(last.result.unauthorized)
                  = Range(last.streams)
            /\ last.result.authorized =
                  SelectSeq(last.streams, LAMBDA s : s.id \notin unauthorized_ids)

\* an input that repeats an authorized stream, which stays repeated
C7_Witness ==
    /\ last.op = "filter"
    /\ Len(last.streams) > Cardinality(Range(last.streams))
    /\ Len(last.result.authorized) > Cardinality(Range(last.result.authorized))

(* -------------------------------- C8 ---------------------------------- *)
\* C8: filter_stream_authorization makes exactly 2 round trips to its
\* collaborators for every input, whatever the number of input streams and
\* of subscriptions found.
C8_TwoQueries ==
    last.op = "filter" => last.result.queries = 2

(* -------------------------------- C9 ---------------------------------- *)
\* C9: no operation writes: every step leaves the streams, the recipients
\* and the subscriptions (their active flags included) as they were.
C9_ReadOnly ==
    [][/\ streams' = streams
       /\ recipients' = recipients
       /\ subscriptions' = subscriptions]_vars

\* access_stream_by_id has returned an active subscription it read
C9_Witness ==
    /\ last.op = "by_id"
    /\ ~last.result.raised
    /\ last.result.value[3] # None
    /\ last.result.value[3] \in subscriptions

(* -------------------------------- C10 --------------------------------- *)
\* C10: on the streams of the user's own realm the bulk and the single
\* predicate agree: such a stream is in the authorized list of
\* filter_stream_authorization iff access_stream_common succeeds on it.
C10_BulkAgreesWithSingle ==
    last.op = "filter" =>
        \A s \in Range(last.streams) :
            SameRealm(last.user_profile, s) =>
                (s \in Range(last.result.authorized)
                    <=> ~AccessStreamCommon(last.user_profile, s, InvalidStreamId).raised)

\* the input holds a private stream of the own realm the user is subscribed
\* to, and a stream of another realm on which the two predicates differ
C10_Witness ==
    /\ last.op = "filter"
    /\ \E s \in Range(last.streams) :
          /\ SameRealm(last.user_profile, s)
          /\ s.invite_only
          /\ s \in Range(last.result.authorized)
    /\ \E s \in Range(last.streams) :
          /\ ~SameRealm(last.user_profile, s)
          /\ s \in Range(last.result.authorized)
          /\ AccessStreamCommon(last.user_profile, s, InvalidStreamId).raised
====
